---------------------------- MODULE Spec2Model ----------------------------
(***************************************************************************)
(* A model of the zi component runtime core: the key model                 *)
(* (terminal/input.rs), the type-erasure boundary and component identity   *)
(* (component/template.rs), and the two components that exercise them,     *)
(* Counter (examples/counter.rs) and Input (components/input.rs).          *)
(***************************************************************************)
EXTENDS Integers, Sequences, FiniteSets, TLC

VARIABLES
    ka, kb, kres,           \* key model: two KeyEvent inputs, the last result
    da, db, ha, hb, idres,  \* identity: two ComponentDefs, two position
                            \* hashes, the last result
    defs, calls, tres,      \* templates: the ComponentDef instances, the
                            \* extraction calls made on each, the last result
    comp, table, pending,   \* runtime: the mounted component, its binding
    last,                   \* table, its pending-key buffer, the last call
    hist,                   \* the messages Counter::update was given
    shadow,                 \* the buffer of an always-focused twin table
    comps, queue,           \* messages: the mounted components, the messages
    sentLog, got, lres      \* queued, what each handle sent, what reached
                            \* update from each handle, the last step

keyVars == <<ka, kb, kres>>
idVars == <<da, db, ha, hb, idres>>
templateVars == <<defs, calls, tres>>
runVars == <<comp, table, pending, last, hist, shadow>>
linkVars == <<comps, queue, sentLog, got, lres>>
vars == <<ka, kb, kres, da, db, ha, hb, idres, defs, calls, tres,
          comp, table, pending, last, hist, shadow,
          comps, queue, sentLog, got, lres>>

None == [tag |-> "None"]
Some(v) == [tag |-> "Some", value |-> v]

(***************************************************************************)
(* terminal/input.rs: KeyCode, KeyModifiers, KeyEvent                      *)
(***************************************************************************)

\* A char is its code point.  The sample holds ASCII letters of both cases,
\* ASCII non-letters, control characters and a non-ASCII letter.
CharPlus == 43
CharMinus == 45
CharEquals == 61
CharNewline == 10
CharTab == 9
CharReturn == 13
Chars == {CharNewline, CharPlus, CharMinus, CharEquals,
          65, 66, 67, 90, 97, 98, 99, 122, 233}

Char(c) == [kind |-> "Char", arg |-> c]
F(n) == [kind |-> "F", arg |-> n]
Key(k) == [kind |-> k, arg |-> 0]

KeyCode ==
    {Key(k) : k \in {"Backspace", "Left", "Home", "Delete", "Null", "Esc"}}
        \cup {F(1)} \cup {Char(c) : c \in Chars}

SHIFT == "SHIFT"
CONTROL == "CONTROL"
ALT == "ALT"
KeyModifiers == SUBSET {SHIFT, CONTROL, ALT}

KeyEvent_new(code, modifiers) == [code |-> code, modifiers |-> modifiers]
KeyEvent_from(code) == [code |-> code, modifiers |-> {}]
KeyEvent == {KeyEvent_new(c, m) : c \in KeyCode, m \in KeyModifiers}

is_ascii_uppercase(c) == c >= 65 /\ c <= 90
is_ascii_lowercase(c) == c >= 97 /\ c <= 122
to_ascii_uppercase(c) == IF is_ascii_lowercase(c) THEN c - 32 ELSE c

\* A slip: the upper-casing branch is left out.
normalize_case_no_upper(e) ==
    IF e.code.kind # "Char" THEN e
    ELSE IF is_ascii_uppercase(e.code.arg)
         THEN [e EXCEPT !.modifiers = @ \cup {SHIFT}]
         ELSE e

\* A slip: SHIFT is cleared once the letter has been upper-cased.
normalize_case_clear_shift(e) ==
    IF e.code.kind # "Char" THEN e
    ELSE IF is_ascii_uppercase(e.code.arg)
         THEN [e EXCEPT !.modifiers = @ \cup {SHIFT}]
         ELSE IF SHIFT \in e.modifiers
              THEN [e EXCEPT !.code = Char(to_ascii_uppercase(e.code.arg)),
                             !.modifiers = @ \ {SHIFT}]
              ELSE e

normalize_case(e) ==
    IF e.code.kind # "Char" THEN e
    ELSE IF is_ascii_uppercase(e.code.arg)
         THEN [e EXCEPT !.modifiers = @ \cup {SHIFT}]
         ELSE IF SHIFT \in e.modifiers
              THEN [e EXCEPT !.code = Char(to_ascii_uppercase(e.code.arg))]
              ELSE e

\* A slip: the two sides are compared field by field, as they are.
KeyEvent_eq_derived(a, b) ==
    (a.code = b.code) /\ (a.modifiers = b.modifiers)

\* A slip: the modifiers are left out of the comparison.
KeyEvent_eq_codes_only(a, b) ==
    normalize_case(a).code = normalize_case(b).code

\* impl PartialEq for KeyEvent
KeyEvent_eq(a, b) ==
    LET l == normalize_case(a)
        r == normalize_case(b)
    IN  (l.code = r.code) /\ (l.modifiers = r.modifiers)

\* derive(PartialOrd) on KeyCode: the variants in declaration order, then the
\* payload
KeyCode_discriminant(code) ==
    CASE code.kind = "Backspace" -> 0
      [] code.kind = "Enter" -> 1
      [] code.kind = "Left" -> 2
      [] code.kind = "Right" -> 3
      [] code.kind = "Up" -> 4
      [] code.kind = "Down" -> 5
      [] code.kind = "Home" -> 6
      [] code.kind = "End" -> 7
      [] code.kind = "PageUp" -> 8
      [] code.kind = "PageDown" -> 9
      [] code.kind = "Tab" -> 10
      [] code.kind = "BackTab" -> 11
      [] code.kind = "Delete" -> 12
      [] code.kind = "Insert" -> 13
      [] code.kind = "F" -> 14
      [] code.kind = "Char" -> 15
      [] code.kind = "Null" -> 16
      [] code.kind = "Esc" -> 17

Ordering(a, b) == IF a < b THEN "Less" ELSE IF a > b THEN "Greater" ELSE "Equal"

KeyCode_partial_cmp(a, b) ==
    IF KeyCode_discriminant(a) # KeyCode_discriminant(b)
    THEN Ordering(KeyCode_discriminant(a), KeyCode_discriminant(b))
    ELSE Ordering(a.arg, b.arg)

\* KeyModifiers is a bit set over u8 and is ordered as its bits are.
KeyModifiers_bits(m) ==
    (IF SHIFT \in m THEN 1 ELSE 0) + (IF CONTROL \in m THEN 2 ELSE 0)
        + (IF ALT \in m THEN 4 ELSE 0)

\* derive(PartialOrd) on KeyEvent: the fields in declaration order, as they
\* are
KeyEvent_partial_cmp(a, b) ==
    IF KeyCode_partial_cmp(a.code, b.code) # "Equal"
    THEN KeyCode_partial_cmp(a.code, b.code)
    ELSE Ordering(KeyModifiers_bits(a.modifiers), KeyModifiers_bits(b.modifiers))

(***************************************************************************)
(* component/template.rs: ComponentId                                      *)
(***************************************************************************)

\* The concrete types of the program, as TypeId tags.  "OtherCounter" is a
\* second type named like Counter: type_name is no unique id of a type.
ComponentTypes == {"Counter", "Input"}
TypeTags == ComponentTypes \cup {"OtherCounter"}

TypeId_of(T) == T
type_name(T) ==
    IF T \in {"Counter", "OtherCounter"} THEN "counter::Counter"
    ELSE "zi::components::input::Input"

\* The position ids (u64) of the sample.
MaxHash == 2
PosHashes == 0..MaxHash

\* A slip: the derived comparison, which reads every field.
ComponentId_eq_derived(a, b) ==
    a.type_name = b.type_name /\ a.id = b.id

\* impl PartialEq for ComponentId
ComponentId_eq(a, b) ==
    a.type_id = b.type_id /\ a.id = b.id

\* impl Hash for ComponentId: the data fed to the hasher, in order
ComponentId_hash(a) == <<a.type_id, a.id>>

ComponentId_new(T, id) ==
    [type_id |-> TypeId_of(T), type_name |-> type_name(T), id |-> id]

(***************************************************************************)
(* component/template.rs: DynamicMessage, DynamicProperties (Box<dyn Any>) *)
(***************************************************************************)
MessageType(T) == IF T = "Counter" THEN "counter::Message" ELSE "input::Message"
PropertiesType(T) ==
    IF T = "Counter" THEN "counter::Properties" ELSE "input::InputProperties"

\* Box::new(value): the value behind its concrete type's TypeId
DynamicMessage(type_id, value) == [type_id |-> type_id, value |-> value]
DynamicProperties(type_id, value) == [type_id |-> type_id, value |-> value]

\* Box<dyn Any>::downcast::<T>(): the value iff the box holds a T
downcast(boxed, type_id) ==
    IF boxed.type_id = type_id THEN Some(boxed.value) ELSE None

Yes == [tag |-> "Yes"]
No == [tag |-> "No"]
Panic(msg) == [tag |-> "Panic", msg |-> msg]

(***************************************************************************)
(* examples/counter.rs: Counter                                            *)
(***************************************************************************)

\* usize::MAX, narrowed.
UsizeMax == 4
Usize == 0..UsizeMax

saturating_add(a, b) == IF a + b > UsizeMax THEN UsizeMax ELSE a + b
saturating_sub(a, b) == IF a - b < 0 THEN 0 ELSE a - b
\* usize addition as the build defines it without the saturation
wrapping_add(a, b) == (a + b) % (UsizeMax + 1)

Increment == [kind |-> "Increment", arg |-> 0]
Decrement == [kind |-> "Decrement", arg |-> 0]
CounterMessage == {Increment, Decrement}
CounterProperties == [initial_count : Usize]

\* A slip: the link is addressed to the component at position 0.
ComponentLink_new_root(sender, component_id) ==
    [sender |-> sender, component_id |-> [component_id EXCEPT !.id = 0]]

ComponentLink_new(sender, component_id) ==
    [sender |-> sender, component_id |-> component_id]

Counter_create(properties, frame, link) ==
    [type |-> "Counter", count |-> properties.initial_count, link |-> link]

\* A slip: the increment wraps instead of saturating.
Counter_update_wrapping(self, message) ==
    LET new_count == IF message = Increment
                     THEN wrapping_add(self.count, 1)
                     ELSE saturating_sub(self.count, 1)
    IN  IF new_count # self.count
        THEN [self |-> [self EXCEPT !.count = new_count], ret |-> Yes]
        ELSE [self |-> self, ret |-> No]

Counter_update(self, message) ==
    LET new_count == IF message = Increment
                     THEN saturating_add(self.count, 1)
                     ELSE saturating_sub(self.count, 1)
    IN  IF new_count # self.count
        THEN [self |-> [self EXCEPT !.count = new_count], ret |-> Yes]
        ELSE [self |-> self, ret |-> No]

\* Component::change, the trait's default: Counter does not override it.
Counter_change(self, properties) == [self |-> self, ret |-> No]

(***************************************************************************)
(* components/input.rs: Input                                              *)
(***************************************************************************)
Ropes == {<<97>>}
InputProperties ==
    {p \in [style : {"default"}, content : Ropes, cursor : 0..1,
            on_change : {None, Some("cb")}, focused : BOOLEAN] :
        p.cursor <= Len(p.content)}

InsertChar(c) == [kind |-> "InsertChar", arg |-> c]
Msg(k) == [kind |-> k, arg |-> 0]
InputMessage ==
    {Msg(k) : k \in {"CursorLeft", "CursorRight", "StartOfLine", "EndOfLine",
                     "DeleteBackward", "DeleteForward"}}
        \cup {InsertChar(98)}

Input_create(properties, frame, link) ==
    [type |-> "Input", properties |-> properties, frame |-> frame]

Input_change(self, properties) ==
    IF self.properties # properties
    THEN [self |-> [self EXCEPT !.properties = properties], ret |-> Yes]
    ELSE [self |-> self, ret |-> No]

Input_resize(self, frame) ==
    [self |-> [self EXCEPT !.frame = frame], ret |-> Yes]

\* text::cursor: the cursor is an index into the rope.
Min(a, b) == IF a < b THEN a ELSE b
Max(a, b) == IF a > b THEN a ELSE b
InsertAt(rope, i, c) ==
    SubSeq(rope, 1, Min(i, Len(rope))) \o <<c>>
        \o SubSeq(rope, Min(i, Len(rope)) + 1, Len(rope))
RemoveAt(rope, i) ==
    IF i >= 1 /\ i <= Len(rope)
    THEN SubSeq(rope, 1, i - 1) \o SubSeq(rope, i + 1, Len(rope))
    ELSE rope
cursor_move_left(cursor, rope) == Max(cursor - 1, 0)
cursor_move_right(cursor, rope) == Min(cursor + 1, Len(rope))

\* InputChange { content, cursor }
InputChange(content, cursor) == [content |-> content, cursor |-> cursor]

\* The InputChange a message computes from the current properties.
Input_update_change(self, message) ==
    LET cursor == self.properties.cursor
        content == self.properties.content
    IN  CASE message.kind = "CursorLeft" ->
                InputChange(None, cursor_move_left(cursor, content))
          [] message.kind = "CursorRight" ->
                InputChange(None, cursor_move_right(cursor, content))
          [] message.kind = "StartOfLine" -> InputChange(None, 0)
          [] message.kind = "EndOfLine" -> InputChange(None, Len(content))
          [] message.kind = "InsertChar" ->
                LET new_content == InsertAt(content, cursor, message.arg)
                IN  InputChange(Some(new_content),
                                cursor_move_right(cursor, new_content))
          [] message.kind = "DeleteBackward" ->
                InputChange(Some(RemoveAt(content, cursor)),
                            IF cursor >= 1 /\ cursor <= Len(content)
                            THEN cursor - 1 ELSE cursor)
          [] message.kind = "DeleteForward" ->
                InputChange(Some(RemoveAt(content, cursor + 1)), cursor)

\* A slip: the new cursor is stored in the component as well.
Input_update_storing(self, message) ==
    [self |-> [self EXCEPT !.properties.cursor =
                  Input_update_change(self, message).cursor],
     ret |-> Yes,
     emitted |-> IF self.properties.on_change # None
                 THEN <<Input_update_change(self, message)>>
                 ELSE <<>>]

\* emitted: what on_change.emit was called with, in order
Input_update(self, message) ==
    [self |-> self,
     ret |-> Yes,
     emitted |-> IF self.properties.on_change # None
                 THEN <<Input_update_change(self, message)>>
                 ELSE <<>>]

(***************************************************************************)
(* The binding table (Bindings<T> / DynamicBindings) and the resolution of *)
(* key events against it.                                                  *)
(***************************************************************************)

\* A match rule: a sequence of key chords, or the AnyCharacter predicate.
KeysRule(keys) == [kind |-> "keys", keys |-> keys]
AnyCharacter == [kind |-> "AnyCharacter", keys |-> <<>>]

\* What a command's closure does when it is run.
Emit(message) == [kind |-> "message", message |-> message]
ExitHandler == [kind |-> "exit", message |-> None]
InsertCharHandler == [kind |-> "insert_char", message |-> None]

\* DynamicBindings::new::<ComponentT>(): an empty table without focus
DynamicBindings_new(T) == [type |-> T, focus |-> FALSE, commands |-> <<>>]

Bindings_is_empty(bindings) == Len(bindings.commands) = 0
Bindings_set_focus(bindings, focus) == [bindings EXCEPT !.focus = focus]

\* bindings.command(name, handler): a new command without rules
Bindings_command(bindings, name, handler) ==
    [bindings EXCEPT !.commands =
        Append(@, [name |-> name, handler |-> handler, rules |-> <<>>])]

\* .with(keys): one more rule of the command just added
Bindings_with(bindings, keys) ==
    LET n == Len(bindings.commands)
    IN  [bindings EXCEPT !.commands[n].rules = Append(@, KeysRule(keys))]

\* bindings.add(name, rule, handler): a command with one rule
Bindings_add(bindings, name, rule, handler) ==
    LET b == Bindings_command(bindings, name, handler)
    IN  [b EXCEPT !.commands[Len(b.commands)].rules = Append(@, rule)]

\* The trailing suffix of the buffer equals the sequence, chord by chord.
EndsWith(buffer, keys) ==
    /\ Len(buffer) >= Len(keys)
    /\ \A i \in 1..Len(keys) :
          KeyEvent_eq(buffer[Len(buffer) - Len(keys) + i], keys[i])

\* The buffer is a prefix of the sequence (strict when it is shorter).
IsPrefix(buffer, keys) ==
    /\ Len(buffer) <= Len(keys)
    /\ \A i \in 1..Len(buffer) : KeyEvent_eq(buffer[i], keys[i])

\* AnyCharacter: the buffer is one printable character.
AnyCharacterMatches(buffer) ==
    /\ Len(buffer) = 1
    /\ buffer[1].code.kind = "Char"
    /\ buffer[1].modifiers \subseteq {SHIFT}

RuleMatches(rule, buffer) ==
    IF rule.kind = "keys" THEN EndsWith(buffer, rule.keys)
    ELSE AnyCharacterMatches(buffer)

\* The commands (by index) one of whose rules the buffer satisfies.
Matching(bindings, buffer) ==
    {c \in 1..Len(bindings.commands) :
        \E r \in 1..Len(bindings.commands[c].rules) :
            RuleMatches(bindings.commands[c].rules[r], buffer)}

\* Some registered sequence is longer than the buffer and starts with it.
PrefixLive(bindings, buffer) ==
    \E c \in 1..Len(bindings.commands) :
        \E r \in 1..Len(bindings.commands[c].rules) :
            LET rule == bindings.commands[c].rules[r]
            IN  /\ rule.kind = "keys"
                /\ Len(buffer) < Len(rule.keys)
                /\ IsPrefix(buffer, rule.keys)

\* Steps 2, 3 and 5 on one buffer: the resolved command and the buffer kept;
\* keys is the buffer evaluated, matching the commands it satisfied.
Evaluate(bindings, buffer) ==
    LET m == Matching(bindings, buffer)
    IN  IF Cardinality(m) = 1
        THEN [resolved |-> Some(CHOOSE c \in m : TRUE), buffer |-> <<>>,
              keys |-> buffer, matching |-> m]
        ELSE [resolved |-> None, buffer |-> buffer, keys |-> buffer,
              matching |-> m]

\* The resolution of one key event by a table that has focus; evals counts
\* the evaluations made, first holds the commands the appended buffer
\* satisfied.
ResolveFocused(bindings, buffer, event) ==
    LET appended == Append(buffer, event)
        first == Evaluate(bindings, appended)
    IN  IF first.resolved # None \/ PrefixLive(bindings, appended)
        THEN [evals |-> 1, first |-> first.matching] @@ first
        ELSE [evals |-> 2, first |-> first.matching]
                @@ Evaluate(bindings, <<event>>)

\* The resolution of one key event: only a table with focus takes part.
Resolve(bindings, buffer, event) ==
    IF bindings.focus
    THEN ResolveFocused(bindings, buffer, event)
    ELSE [resolved |-> None, buffer |-> buffer, keys |-> buffer,
          matching |-> {}, evals |-> 0, first |-> {}]

\* Construction-time validation: no exact rule is registered under two
\* different command names.
Bindings_validate(bindings) ==
    \A c1 \in 1..Len(bindings.commands), c2 \in 1..Len(bindings.commands) :
        bindings.commands[c1].name # bindings.commands[c2].name =>
            \A r1 \in 1..Len(bindings.commands[c1].rules),
               r2 \in 1..Len(bindings.commands[c2].rules) :
                LET k1 == bindings.commands[c1].rules[r1]
                    k2 == bindings.commands[c2].rules[r2]
                IN  ~(/\ k1.kind = "keys" /\ k2.kind = "keys"
                      /\ Len(k1.keys) = Len(k2.keys)
                      /\ EndsWith(k1.keys, k2.keys))

\* bindings.execute_command(component, command_id, keys): the message the
\* command's closure yields, if any
execute_command(bindings, self, command_id, keys) ==
    LET handler == bindings.commands[command_id].handler
    IN  CASE handler.kind = "message" ->
                Some(DynamicMessage(MessageType(bindings.type), handler.message))
          [] handler.kind = "exit" -> None
          [] handler.kind = "insert_char" ->
                IF /\ Len(keys) = 1
                   /\ keys[1].code.kind = "Char"
                   /\ keys[1].code.arg \notin {CharNewline, CharReturn, CharTab}
                THEN Some(DynamicMessage(MessageType(bindings.type),
                                         InsertChar(keys[1].code.arg)))
                ELSE None

\* A slip: '+' is bound to the wrong command.
Counter_bindings_swapped(self, bindings) ==
    IF ~Bindings_is_empty(bindings) THEN bindings
    ELSE LET b0 == Bindings_set_focus(bindings, TRUE)
             b1 == Bindings_with(Bindings_with(
                       Bindings_command(b0, "increment", Emit(Increment)),
                       <<KeyEvent_from(Char(CharMinus))>>),
                       <<KeyEvent_from(Char(CharEquals))>>)
             b2 == Bindings_add(b1, "decrement",
                       KeysRule(<<KeyEvent_from(Char(CharPlus))>>),
                       Emit(Decrement))
         IN  Bindings_with(Bindings_with(
                 Bindings_command(b2, "exit", ExitHandler),
                 <<KeyEvent_new(Char(99), {CONTROL})>>),
                 <<KeyEvent_from(Key("Esc"))>>)

\* The rules Counter registers, on whatever table it is given.
Counter_populate(bindings) ==
    LET b0 == Bindings_set_focus(bindings, TRUE)
        b1 == Bindings_with(Bindings_with(
                  Bindings_command(b0, "increment", Emit(Increment)),
                  <<KeyEvent_from(Char(CharPlus))>>),
                  <<KeyEvent_from(Char(CharEquals))>>)
        b2 == Bindings_add(b1, "decrement",
                  KeysRule(<<KeyEvent_from(Char(CharMinus))>>),
                  Emit(Decrement))
    IN  Bindings_with(Bindings_with(
            Bindings_command(b2, "exit", ExitHandler),
            <<KeyEvent_new(Char(99), {CONTROL})>>),
            <<KeyEvent_from(Key("Esc"))>>)

\* A slip: the emptiness check is left out.
Counter_bindings_unchecked(self, bindings) == Counter_populate(bindings)

\* Counter::bindings
Counter_bindings(self, bindings) ==
    IF ~Bindings_is_empty(bindings) THEN bindings
    ELSE Counter_populate(bindings)

\* The rules Input registers.
Input_populate(bindings) ==
    LET Two(b, name, message, c, code) ==
            Bindings_with(Bindings_with(
                Bindings_command(b, name, Emit(Msg(message))),
                <<KeyEvent_new(Char(c), {CONTROL})>>),
                <<KeyEvent_from(Key(code))>>)
        b1 == Two(bindings, "left", "CursorLeft", 98, "Left")
        b2 == Two(b1, "right", "CursorRight", 102, "Right")
        b3 == Two(b2, "start-of-line", "StartOfLine", 97, "Home")
        b4 == Two(b3, "end-of-line", "EndOfLine", 101, "End")
        b5 == Two(b4, "delete-forward", "DeleteForward", 100, "Delete")
        b6 == Bindings_add(b5, "delete-backward",
                  KeysRule(<<KeyEvent_from(Key("Backspace"))>>),
                  Emit(Msg("DeleteBackward")))
    IN  Bindings_add(b6, "insert-character", AnyCharacter, InsertCharHandler)

\* A slip: the focus is set on the first population only, as Counter does.
Input_bindings_focus_once(self, bindings) ==
    IF ~Bindings_is_empty(bindings) THEN bindings
    ELSE Input_populate(Bindings_set_focus(bindings, self.properties.focused))

\* A slip: the focus is set as Counter sets it.
Input_bindings_focus_true(self, bindings) ==
    LET b == Bindings_set_focus(bindings, TRUE)
    IN  IF ~Bindings_is_empty(b) THEN b ELSE Input_populate(b)

\* Input::bindings
Input_bindings(self, bindings) ==
    LET b == Bindings_set_focus(bindings, self.properties.focused)
    IN  IF ~Bindings_is_empty(b) THEN b ELSE Input_populate(b)

(***************************************************************************)
(* component/template.rs: impl Renderable for ComponentT                   *)
(***************************************************************************)
Component_create(T, properties, frame, link) ==
    IF T = "Counter" THEN Counter_create(properties, frame, link)
    ELSE Input_create(properties, frame, link)

Component_update(self, message) ==
    IF self.type = "Counter"
    THEN [emitted |-> <<>>] @@ Counter_update(self, message)
    ELSE Input_update(self, message)

Component_change(self, properties) ==
    IF self.type = "Counter" THEN Counter_change(self, properties)
    ELSE Input_change(self, properties)

Component_bindings(self, bindings) ==
    IF self.type = "Counter" THEN Counter_bindings(self, bindings)
    ELSE Input_bindings(self, bindings)

\* A slip: the concrete method's answer is dropped for a constant.
Renderable_update_always_yes(self, message) ==
    LET m == downcast(message, MessageType(self.type))
    IN  IF m = None
        THEN [self |-> self, ret |-> Panic("Incorrect Message type when downcasting"),
              delivered |-> None, emitted |-> <<>>]
        ELSE LET r == Component_update(self, m.value)
             IN  [self |-> r.self, ret |-> Yes, delivered |-> m,
                  emitted |-> r.emitted]

\* Renderable::update: delivered is what Component::update was called with
Renderable_update(self, message) ==
    LET m == downcast(message, MessageType(self.type))
    IN  IF m = None
        THEN [self |-> self, ret |-> Panic("Incorrect Message type when downcasting"),
              delivered |-> None, emitted |-> <<>>]
        ELSE LET r == Component_update(self, m.value)
             IN  [self |-> r.self, ret |-> r.ret, delivered |-> m,
                  emitted |-> r.emitted]

\* A slip: properties of another type are dropped without a word.
Renderable_change_ignoring(self, properties) ==
    LET p == downcast(properties, PropertiesType(self.type))
    IN  IF p = None
        THEN [self |-> self, ret |-> No, delivered |-> None]
        ELSE LET r == Component_change(self, p.value)
             IN  [self |-> r.self, ret |-> r.ret, delivered |-> p]

\* Renderable::change: delivered is what Component::change was called with
Renderable_change(self, properties) ==
    LET p == downcast(properties, PropertiesType(self.type))
    IN  IF p = None
        THEN [self |-> self,
              ret |-> Panic("Incorrect Properties type when downcasting"),
              delivered |-> None]
        ELSE LET r == Component_change(self, p.value)
             IN  [self |-> r.self, ret |-> r.ret, delivered |-> p]

\* Component::resize, the trait's default: Counter does not override it.
Counter_resize(self, frame) == [self |-> self, ret |-> No]

\* Renderable::resize
Renderable_resize(self, frame) ==
    IF self.type = "Counter" THEN Counter_resize(self, frame)
    ELSE Input_resize(self, frame)

\* Renderable::bindings
Renderable_bindings(self, bindings) == Component_bindings(self, bindings)

\* Component::tick, the trait's default: neither component overrides it.
Component_tick(self) == None

\* Renderable::tick: the component's message, boxed
Renderable_tick(self) ==
    LET t == Component_tick(self)
    IN  IF t = None THEN None
        ELSE Some(DynamicMessage(MessageType(self.type), t.value))

\* Renderable::run_command
Renderable_run_command(self, bindings, command_id, keys) ==
    execute_command(bindings, self, command_id, keys)

(***************************************************************************)
(* component/template.rs: ComponentDef and impl Template for ComponentDef  *)
(***************************************************************************)
ComponentDef_new(T, key, properties) ==
    [type |-> T, key |-> key, properties |-> Some(properties)]

\* A slip: the properties are read and left in place.
properties_unwrap_peek(def) ==
    [def |-> def, properties |-> def.properties]

\* properties_unwrap: the definition after the swap, and the properties taken
\* (None: expect() panics)
properties_unwrap(def) ==
    [def |-> [def EXCEPT !.properties = None], properties |-> def.properties]

Template_key(def) == def.key
component_type_id(def) == TypeId_of(def.type)

\* A slip: the explicit key is folded into the id.
generate_id_keyed(def, position_hash) ==
    ComponentId_new(def.type,
        IF def.key = None THEN position_hash
        ELSE (position_hash + def.key.value) % (MaxHash + 1))

\* Template::generate_id
generate_id(def, position_hash) == ComponentId_new(def.type, position_hash)

AlreadyUsed == Panic("Already called a method that used the Properties value")

\* Template::create: the definition afterwards, and the (Renderable,
\* DynamicBindings) pair or the panic
create(def, component_id, frame, sender) ==
    LET link == ComponentLink_new(sender, component_id)
        u == properties_unwrap(def)
    IN  [def |-> u.def,
         result |->
            IF u.properties = None THEN AlreadyUsed
            ELSE Some(<<Component_create(def.type, u.properties.value, frame, link),
                        DynamicBindings_new(def.type)>>)]

\* Template::dynamic_properties
dynamic_properties(def) ==
    LET u == properties_unwrap(def)
    IN  [def |-> u.def,
         result |->
            IF u.properties = None THEN AlreadyUsed
            ELSE Some(DynamicProperties(PropertiesType(def.type),
                                        u.properties.value))]

(***************************************************************************)
(* The samples the state machines draw their inputs from, and the values   *)
(* the variables of a machine hold while another machine runs.             *)
(***************************************************************************)
Frames == {"r0", "r1"}
Sender == "sender"
ComponentKeys == {None, Some(1), Some(2)}

PropertiesOf(T) == IF T = "Counter" THEN CounterProperties ELSE InputProperties

\* Every ComponentDef of the two component types, fresh.
FreshDefs ==
    UNION {{ComponentDef_new(T, k, p) : k \in ComponentKeys, p \in PropertiesOf(T)} :
           T \in ComponentTypes}

OpNone == [op |-> "none"]
IdleDef == ComponentDef_new("Counter", None, [initial_count |-> 0])

KeyIdle == ka = KeyEvent_from(Key("Null")) /\ kb = ka /\ kres = OpNone
IdIdle == da = IdleDef /\ db = IdleDef /\ ha = 0 /\ hb = 0 /\ idres = OpNone
TemplateIdle ==
    defs = <<IdleDef>> /\ calls = <<(<<>>)>> /\ tres = OpNone
RunIdle ==
    /\ comp = None
    /\ table = DynamicBindings_new("Counter")
    /\ pending = <<>>
    /\ last = OpNone
    /\ hist = [initial |-> 0, steps |-> <<>>]
    /\ shadow = <<>>

Handles == {1, 2, 3}
LinkIdle ==
    /\ comps = <<>>
    /\ queue = <<>>
    /\ sentLog = [h \in Handles |-> <<>>]
    /\ got = [h \in Handles |-> <<>>]
    /\ lres = OpNone

(***************************************************************************)
(* The key model as a state machine: the operations are applied to two     *)
(* inputs drawn from KeyEvent.                                             *)
(***************************************************************************)
InitKey ==
    /\ ka \in KeyEvent
    /\ kb \in KeyEvent
    /\ kres = OpNone
    /\ IdIdle /\ TemplateIdle /\ RunIdle /\ LinkIdle

\* e.normalize_case()
Normalize ==
    /\ kres' = [op |-> "normalize", arg |-> ka, out |-> normalize_case(ka)]
    /\ UNCHANGED <<ka, kb, idVars, templateVars, runVars, linkVars>>

\* normalize_case applied to the result of normalize_case
Renormalize ==
    /\ kres.op = "normalize"
    /\ kres' = [op |-> "renormalize", arg |-> kres.out,
                out |-> normalize_case(kres.out)]
    /\ UNCHANGED <<ka, kb, idVars, templateVars, runVars, linkVars>>

\* ka == kb
Compare ==
    /\ kres' = [op |-> "eq", out |-> KeyEvent_eq(ka, kb)]
    /\ UNCHANGED <<ka, kb, idVars, templateVars, runVars, linkVars>>

\* ka.partial_cmp(&kb), next to ka == kb
ComparePartial ==
    /\ kres' = [op |-> "partial_cmp", out |-> KeyEvent_partial_cmp(ka, kb),
                eq |-> KeyEvent_eq(ka, kb)]
    /\ UNCHANGED <<ka, kb, idVars, templateVars, runVars, linkVars>>

NextKey == Normalize \/ Renormalize \/ Compare \/ ComparePartial

SpecKey == InitKey /\ [][NextKey]_vars

IsAsciiLetter(code) ==
    code.kind = "Char"
        /\ (is_ascii_uppercase(code.arg) \/ is_ascii_lowercase(code.arg))

\* C1: KeyEvent equality is computed on normalized events: a letter with
\* SHIFT (and any other modifiers m) equals the upper-case letter with m
\* alone, and events with a non-letter code are equal iff their codes and
\* modifier sets are identical.
C1_EqualityNormalized ==
    /\ (kres.op = "normalize" /\ ~IsAsciiLetter(kres.arg.code))
          => kres.out = kres.arg
    /\ kres.op = "eq" =>
        /\ (/\ IsAsciiLetter(ka.code)
            /\ SHIFT \in ka.modifiers
            /\ kb = KeyEvent_new(Char(to_ascii_uppercase(ka.code.arg)),
                                 ka.modifiers \ {SHIFT}))
              => kres.out = TRUE
        /\ (~IsAsciiLetter(ka.code) \/ ~IsAsciiLetter(kb.code))
              => kres.out = (ka.code = kb.code /\ ka.modifiers = kb.modifiers)

\* 'a'+SHIFT has been compared with 'A' without modifiers.
C1_Witness ==
    /\ kres.op = "eq"
    /\ ka = KeyEvent_new(Char(97), {SHIFT})
    /\ kb = KeyEvent_from(Char(65))
    /\ kres.out = TRUE

\* C10: normalization is idempotent: normalizing a normalized event
\* changes neither its code nor its modifier set.
C10_NormalizeIdempotent ==
    kres.op = "renormalize" =>
        /\ kres.out.code = kres.arg.code
        /\ kres.out.modifiers = kres.arg.modifiers

\* A lower-case letter with SHIFT has been normalized twice.
C10_Witness ==
    /\ kres.op = "renormalize"
    /\ ka = KeyEvent_new(Char(97), {SHIFT, CONTROL})
    /\ kres.arg.code = Char(65)

\* C11 as stated: normalizing a lower-case ASCII letter with SHIFT gives the
\* upper-case letter with SHIFT cleared; normalizing an upper-case ASCII
\* letter gives an event with SHIFT set.
C11_ShiftCleared ==
    (kres.op = "normalize" /\ kres.arg.code.kind = "Char") =>
        /\ (is_ascii_lowercase(kres.arg.code.arg) /\ SHIFT \in kres.arg.modifiers)
              => /\ kres.out.code = Char(to_ascii_uppercase(kres.arg.code.arg))
                 /\ SHIFT \notin kres.out.modifiers
        /\ is_ascii_uppercase(kres.arg.code.arg) => SHIFT \in kres.out.modifiers

\* C11, amended: normalizing a lower-case ASCII letter with SHIFT gives the
\* upper-case letter with the modifier set unchanged (SHIFT stays set);
\* normalizing an upper-case ASCII letter gives the same letter with SHIFT
\* added to whatever modifiers the input had.
C11_ShiftKept ==
    (kres.op = "normalize" /\ kres.arg.code.kind = "Char") =>
        /\ (is_ascii_lowercase(kres.arg.code.arg) /\ SHIFT \in kres.arg.modifiers)
              => /\ kres.out.code = Char(to_ascii_uppercase(kres.arg.code.arg))
                 /\ kres.out.modifiers = kres.arg.modifiers
                 /\ SHIFT \in kres.out.modifiers
        /\ is_ascii_uppercase(kres.arg.code.arg)
              => /\ kres.out.code = kres.arg.code
                 /\ kres.out.modifiers = kres.arg.modifiers \cup {SHIFT}

\* 'a' with SHIFT and ALT was normalized to 'A' with SHIFT and ALT.
C11_Witness ==
    /\ kres.op = "normalize"
    /\ kres.arg = KeyEvent_new(Char(97), {SHIFT, ALT})
    /\ kres.out = KeyEvent_new(Char(65), {SHIFT, ALT})

\* C12 as stated: the ordering of KeyEvents agrees with their equality:
\* a == b iff partial_cmp(a, b) is Equal.
C12_OrderAgreesWithEq ==
    kres.op = "partial_cmp" => (kres.eq <=> (kres.out = "Equal"))

\* C19 as stated: in the event normalize_case returns, SHIFT is present iff
\* the code is an upper-case character.
C19_ShiftIffUppercase ==
    kres.op = "normalize" =>
        (SHIFT \in kres.out.modifiers
            <=> (kres.out.code.kind = "Char"
                    /\ is_ascii_uppercase(kres.out.code.arg)))

(***************************************************************************)
(* Component identity as a state machine: ComponentId and generate_id are  *)
(* applied to two definitions and two position hashes drawn from the       *)
(* samples.  A definition may have had its properties taken already.       *)
(***************************************************************************)
SampleProperties(T) ==
    IF T = "Counter" THEN {[initial_count |-> 0], [initial_count |-> 1]}
    ELSE {[style |-> "default", content |-> <<>>, cursor |-> 0,
           on_change |-> None, focused |-> TRUE]}

AnyDefs ==
    UNION {{[type |-> T, key |-> k, properties |-> p] :
                k \in ComponentKeys,
                p \in {None} \cup {Some(x) : x \in SampleProperties(T)}} :
           T \in ComponentTypes}

InitId ==
    /\ da \in AnyDefs
    /\ db \in AnyDefs
    /\ ha \in PosHashes
    /\ hb \in PosHashes
    /\ idres = OpNone
    /\ KeyIdle /\ TemplateIdle /\ RunIdle /\ LinkIdle

\* da.generate_id(ha) and db.generate_id(hb), and the two ids compared
GenerateIds ==
    /\ idres' = [op |-> "generate_id",
                 a |-> generate_id(da, ha),
                 b |-> generate_id(db, hb),
                 eq |-> ComponentId_eq(generate_id(da, ha), generate_id(db, hb))]
    /\ UNCHANGED <<da, db, ha, hb, keyVars, templateVars, runVars, linkVars>>

\* ComponentId::new::<Ta>(ha) == ComponentId::new::<Tb>(hb), and their hashes
CompareIds(Ta, Tb) ==
    LET a == ComponentId_new(Ta, ha)
        b == ComponentId_new(Tb, hb)
    IN  /\ idres' = [op |-> "eq", a |-> a, b |-> b,
                     eq |-> ComponentId_eq(a, b),
                     hash_a |-> ComponentId_hash(a),
                     hash_b |-> ComponentId_hash(b)]
        /\ UNCHANGED <<da, db, ha, hb, keyVars, templateVars, runVars, linkVars>>

NextId ==
    \/ GenerateIds
    \/ \E Ta \in TypeTags, Tb \in TypeTags : CompareIds(Ta, Tb)

SpecId == InitId /\ [][NextId]_vars

\* C4: two ComponentIds are equal iff they have the same type tag and the
\* same id; equal ids feed the same data, the type tag and the id, to the
\* hasher; the type name takes no part (ids of two types with one name are
\* unequal, and the name is not in the hashed data).
C4_IdentityIsTypeAndId ==
    idres.op = "eq" =>
        /\ idres.eq = (idres.a.type_id = idres.b.type_id /\ idres.a.id = idres.b.id)
        /\ idres.eq => idres.hash_a = idres.hash_b
        /\ idres.hash_a = <<idres.a.type_id, idres.a.id>>
        /\ idres.hash_b = <<idres.b.type_id, idres.b.id>>

\* Two ids of different types with the same type name and the same id have
\* been compared, and are unequal.
C4_Witness ==
    /\ idres.op = "eq"
    /\ idres.a.type_name = idres.b.type_name
    /\ idres.a.type_id # idres.b.type_id
    /\ idres.a.id = idres.b.id
    /\ ~idres.eq

\* C5: generate_id is deterministic and identity-stable: for the same
\* concrete type and the same position hash two calls return equal ids,
\* whatever the definition instance, its key and whether its properties are
\* still held; for a different type or position hash the ids are unequal.
C5_GenerateIdStable ==
    idres.op = "generate_id" =>
        idres.eq = (da.type = db.type /\ ha = hb)

\* Two definitions of one type that differ (in key and in whether the
\* properties were consumed) got equal ids for the same position hash.
C5_Witness ==
    /\ idres.op = "generate_id"
    /\ da.type = db.type /\ ha = hb
    /\ da.key # db.key
    /\ da.properties = None /\ db.properties # None
    /\ idres.eq

\* C13 as stated: generate_id folds the explicit key into the identity: two
\* definitions of the same type with the same position hash and different
\* keys (or one with a key and one without) get unequal ids.
C13_KeyFolded ==
    (/\ idres.op = "generate_id"
     /\ da.type = db.type /\ ha = hb
     /\ Template_key(da) # Template_key(db))
    => ~idres.eq

\* C13, amended: generate_id does not read the explicit key: the id is the
\* concrete type with the position hash as it was given, so two definitions
\* of the same type with the same position hash get equal ids also when
\* their keys differ or only one has a key.
C13_KeyNotFolded ==
    idres.op = "generate_id" =>
        /\ idres.a.type_id = component_type_id(da) /\ idres.a.id = ha
        /\ idres.b.type_id = component_type_id(db) /\ idres.b.id = hb
        /\ (da.type = db.type /\ ha = hb /\ Template_key(da) # Template_key(db))
              => idres.eq

\* A definition with key 1 and one without a key, of one type, got equal
\* ids for position hash 1.
C13_Witness ==
    /\ idres.op = "generate_id"
    /\ da.type = db.type /\ ha = 1 /\ hb = 1
    /\ Template_key(da) = Some(1) /\ Template_key(db) = None
    /\ idres.eq
    /\ idres.a.id = 1

(***************************************************************************)
(* The templates as a state machine: two ComponentDef instances, one per   *)
(* component type, on which create and dynamic_properties are called.      *)
(***************************************************************************)
MaxCalls == 2
DefIds == {1, 2}
DefType(d) == IF d = 1 THEN "Counter" ELSE "Input"
DefKey(d) == IF d = 1 THEN None ELSE Some(1)

InitTemplate ==
    /\ \E p1 \in CounterProperties, p2 \in InputProperties :
          defs = <<ComponentDef_new(DefType(1), DefKey(1), p1),
                   ComponentDef_new(DefType(2), DefKey(2), p2)>>
    /\ calls = <<(<<>>), (<<>>)>>
    /\ tres = OpNone
    /\ KeyIdle /\ IdIdle /\ RunIdle /\ LinkIdle

\* ComponentDef::new(key, properties), in the place of definition d
DefNew(d, properties) ==
    /\ defs' = [defs EXCEPT ![d] = ComponentDef_new(DefType(d), DefKey(d), properties)]
    /\ calls' = [calls EXCEPT ![d] = <<>>]
    /\ tres' = [op |-> "new", def |-> d]
    /\ UNCHANGED <<keyVars, idVars, runVars, linkVars>>

\* defs[d].create(defs[d].generate_id(h), frame, sender)
Create(d, h, frame) ==
    LET r == create(defs[d], generate_id(defs[d], h), frame, Sender)
    IN  /\ Len(calls[d]) < MaxCalls
        /\ defs' = [defs EXCEPT ![d] = r.def]
        /\ calls' = [calls EXCEPT ![d] =
                        Append(@, [op |-> "create", ok |-> r.result.tag = "Some"])]
        /\ tres' = [op |-> "create", def |-> d, held |-> defs[d].properties,
                    id |-> generate_id(defs[d], h), frame |-> frame,
                    result |-> r.result]
        /\ UNCHANGED <<keyVars, idVars, runVars, linkVars>>

\* defs[d].dynamic_properties()
TakeDynamicProperties(d) ==
    LET r == dynamic_properties(defs[d])
    IN  /\ Len(calls[d]) < MaxCalls
        /\ defs' = [defs EXCEPT ![d] = r.def]
        /\ calls' = [calls EXCEPT ![d] =
                        Append(@, [op |-> "dynamic_properties",
                                   ok |-> r.result.tag = "Some"])]
        /\ tres' = [op |-> "dynamic_properties", def |-> d,
                    held |-> defs[d].properties, result |-> r.result]
        /\ UNCHANGED <<keyVars, idVars, runVars, linkVars>>

NextTemplate ==
    \/ \E d \in DefIds : \E p \in PropertiesOf(DefType(d)) : DefNew(d, p)
    \/ \E d \in DefIds, h \in PosHashes, frame \in Frames : Create(d, h, frame)
    \/ \E d \in DefIds : TakeDynamicProperties(d)

SpecTemplate == InitTemplate /\ [][NextTemplate]_vars

\* C2: the properties of a ComponentDef are extracted at most once: of the
\* create and dynamic_properties calls made on one definition, in whatever
\* order, the first obtains the properties and every later one panics and
\* returns neither a component nor properties.
C2_SingleConsumption ==
    /\ \A d \in DefIds : \A i \in 1..Len(calls[d]) : calls[d][i].ok = (i = 1)
    /\ \A d \in DefIds : (defs[d].properties = None) = (Len(calls[d]) > 0)
    /\ tres.op \in {"create", "dynamic_properties"} =>
          IF Len(calls[tres.def]) = 1
          THEN /\ tres.result.tag = "Some"
               /\ tres.op = "dynamic_properties"
                     => tres.result.value.value = tres.held.value
               /\ tres.op = "create" =>
                     tres.result.value[1] =
                        Component_create(DefType(tres.def), tres.held.value,
                            tres.frame, ComponentLink_new(Sender, tres.id))
               /\ tres.op = "create" =>
                     tres.result.value[2] = DynamicBindings_new(DefType(tres.def))
          ELSE tres.result = AlreadyUsed

\* dynamic_properties has been called on a definition after create, and
\* panicked.
C2_Witness ==
    /\ tres.op = "dynamic_properties"
    /\ calls[tres.def] = <<[op |-> "create", ok |-> TRUE],
                           [op |-> "dynamic_properties", ok |-> FALSE]>>
    /\ tres.result = AlreadyUsed

(***************************************************************************)
(* The runtime as a state machine: one mounted component (a Counter or an  *)
(* Input, as Template::create returns it with its empty binding table),    *)
(* driven through Renderable.  bindings() is called after each lifecycle   *)
(* method (counter.rs, the comment on Counter::bindings) and may be called *)
(* again at any time.                                                      *)
(***************************************************************************)
MaxMsgs == 3

\* The key events the input dispatch delivers.
KeyInputs ==
    {KeyEvent_from(Char(c)) : c \in {CharPlus, CharEquals, CharMinus, 99}}
        \cup {KeyEvent_new(Char(99), {CONTROL}), KeyEvent_new(Char(98), {SHIFT}),
              KeyEvent_new(Key("Null"), {CONTROL}),
              KeyEvent_from(Key("Esc")), KeyEvent_from(Key("Left"))}

\* The boxed messages update may be given: those of both components and one
\* of a type neither of them has.
DynamicMessages ==
    {DynamicMessage(MessageType("Counter"), m) : m \in CounterMessage}
        \cup {DynamicMessage(MessageType("Input"), m) : m \in InputMessage}
        \cup {DynamicMessage("()", [kind |-> "unit", arg |-> 0])}

\* The boxed properties change may be given: what dynamic_properties returns
\* for a fresh definition.
DynamicPropertiesOfDefs ==
    {dynamic_properties(def).result.value : def \in FreshDefs}

\* Of the boxes of a type the component does not take, one per type is tried.
ForeignMessages ==
    {DynamicMessage(MessageType("Counter"), Increment),
     DynamicMessage(MessageType("Input"), Msg("CursorLeft")),
     DynamicMessage("()", [kind |-> "unit", arg |-> 0])}
ForeignProperties ==
    {dynamic_properties(def).result.value :
        def \in UNION {{ComponentDef_new(T, None, p) : p \in SampleProperties(T)} :
                       T \in ComponentTypes}}

IsPanic(ret) == ret \notin {Yes, No}

Init ==
    /\ \E def \in FreshDefs :
          LET r == create(def, generate_id(def, 0), "r0", Sender).result.value
          IN  /\ comp = r[1]
              /\ table = r[2]
              /\ hist = [initial |-> IF def.type = "Counter"
                                     THEN def.properties.value.initial_count
                                     ELSE 0,
                         steps |-> <<>>]
    /\ pending = <<>>
    /\ shadow = <<>>
    /\ last = OpNone
    /\ KeyIdle /\ IdIdle /\ TemplateIdle /\ LinkIdle

\* renderable.bindings(&mut bindings)
Bindings ==
    /\ table' = Renderable_bindings(comp, table)
    /\ last' = [op |-> "bindings", before |-> comp,
                populated |-> ~Bindings_is_empty(table)]
    /\ UNCHANGED <<comp, pending, hist, shadow, keyVars, idVars, templateVars, linkVars>>

\* renderable.update(message), then bindings()
Update(message) ==
    LET r == Renderable_update(comp, message)
    IN  /\ message.type_id = MessageType(comp.type) \/ message \in ForeignMessages
        /\ comp.type = "Counter" => Len(hist.steps) < MaxMsgs
        /\ comp' = r.self
        /\ table' = IF IsPanic(r.ret) THEN table
                    ELSE Renderable_bindings(r.self, table)
        /\ hist' = IF comp.type = "Counter" /\ ~IsPanic(r.ret)
                   THEN [hist EXCEPT !.steps = Append(@, <<r.delivered.value, r.ret>>)]
                   ELSE hist
        /\ last' = [op |-> "update", message |-> message, before |-> comp,
                    ret |-> r.ret, delivered |-> r.delivered,
                    emitted |-> r.emitted]
        /\ UNCHANGED <<pending, shadow, keyVars, idVars, templateVars, linkVars>>

\* renderable.change(properties), then bindings()
Change(properties) ==
    LET r == Renderable_change(comp, properties)
    IN  /\ \/ properties.type_id = PropertiesType(comp.type)
           \/ properties \in ForeignProperties
        /\ comp' = r.self
        /\ table' = IF IsPanic(r.ret) THEN table
                    ELSE Renderable_bindings(r.self, table)
        /\ last' = [op |-> "change", properties |-> properties, before |-> comp,
                    ret |-> r.ret, delivered |-> r.delivered,
                    populated |-> ~Bindings_is_empty(table)]
        /\ UNCHANGED <<pending, hist, shadow, keyVars, idVars, templateVars, linkVars>>

\* renderable.resize(frame), then bindings()
Resize(frame) ==
    LET r == Renderable_resize(comp, frame)
    IN  /\ comp' = r.self
        /\ table' = Renderable_bindings(r.self, table)
        /\ last' = [op |-> "resize", frame |-> frame, before |-> comp,
                    ret |-> r.ret]
        /\ UNCHANGED <<pending, hist, shadow, keyVars, idVars, templateVars, linkVars>>

\* One key event is resolved against the table; a resolved command is run.
\* The twin table has the same rules and always has focus; it is given the
\* events the table is given while it has focus.
KeyPress(event) ==
    LET r == Resolve(table, pending, event)
        twin == ResolveFocused(table, shadow, event)
        name(x) == IF x = None THEN None
                   ELSE Some(table.commands[x.value].name)
    IN  /\ pending' = r.buffer
        /\ shadow' = IF table.focus THEN twin.buffer ELSE shadow
        /\ last' = [op |-> "key", event |-> event, before |-> comp,
                    focus |-> table.focus, bufferBefore |-> pending,
                    resolved |-> name(r.resolved),
                    twin |-> name(twin.resolved),
                    message |-> IF r.resolved = None THEN None
                                ELSE Renderable_run_command(comp, table,
                                         r.resolved.value, r.keys)]
        /\ UNCHANGED <<comp, table, hist, keyVars, idVars, templateVars, linkVars>>

\* renderable.tick()
Tick ==
    /\ last' = [op |-> "tick", before |-> comp, message |-> Renderable_tick(comp)]
    /\ UNCHANGED <<comp, table, pending, hist, shadow, keyVars, idVars, templateVars, linkVars>>

Next ==
    \/ Bindings
    \/ Tick
    \/ \E message \in DynamicMessages : Update(message)
    \/ \E properties \in DynamicPropertiesOfDefs : Change(properties)
    \/ \E frame \in Frames : Resize(frame)
    \/ \E event \in KeyInputs : KeyPress(event)

Spec == Init /\ [][Next]_vars

\* C3: erasure round-trip: a message boxed as a DynamicMessage (properties
\* boxed by dynamic_properties) of the component's own Message (Properties)
\* type reaches Component::update (Component::change) as the original value,
\* and Renderable::update (change) returns that method's ShouldRender.
C3_ErasureRoundTrip ==
    /\ (last.op = "update" /\ last.message.type_id = MessageType(last.before.type))
          => /\ last.delivered = Some(last.message.value)
             /\ last.ret = Component_update(last.before, last.message.value).ret
             /\ comp = Component_update(last.before, last.message.value).self
    /\ (last.op = "change" /\ last.properties.type_id = PropertiesType(last.before.type))
          => /\ last.delivered = Some(last.properties.value)
             /\ last.ret = Component_change(last.before, last.properties.value).ret
             /\ comp = Component_change(last.before, last.properties.value).self

\* A Counter at 0 was given the boxed Decrement: it reached Counter::update
\* and its No came back.
C3_Witness ==
    /\ last.op = "update"
    /\ last.before.type = "Counter"
    /\ last.before.count = 0
    /\ last.message = DynamicMessage(MessageType("Counter"), Decrement)
    /\ last.delivered = Some(Decrement)
    /\ last.ret = No

\* C6: the Counter binding scenario: with the table populated by
\* Counter::bindings, in focus, and an empty pending buffer, '+' and '='
\* resolve "increment", '-' resolves "decrement", Ctrl-c and Esc resolve
\* "exit"; the buffer is empty afterwards, and running "increment" /
\* "decrement" yields the Increment / Decrement message.
C6_CounterScenario ==
    (/\ last.op = "key"
     /\ comp.type = "Counter"
     /\ ~Bindings_is_empty(table)
     /\ last.focus
     /\ last.bufferBefore = <<>>)
    => /\ last.event \in {KeyEvent_from(Char(CharPlus)), KeyEvent_from(Char(CharEquals))}
            => /\ last.resolved = Some("increment")
               /\ pending = <<>>
               /\ last.message = Some(DynamicMessage(MessageType("Counter"), Increment))
       /\ last.event = KeyEvent_from(Char(CharMinus))
            => /\ last.resolved = Some("decrement")
               /\ pending = <<>>
               /\ last.message = Some(DynamicMessage(MessageType("Counter"), Decrement))
       /\ last.event \in {KeyEvent_new(Char(99), {CONTROL}), KeyEvent_from(Key("Esc"))}
            => /\ last.resolved = Some("exit")
               /\ pending = <<>>

\* '+' was fed to the focused Counter table with an empty buffer and
\* resolved "increment".
C6_Witness ==
    /\ last.op = "key"
    /\ comp.type = "Counter"
    /\ last.focus
    /\ last.bufferBefore = <<>>
    /\ last.event = KeyEvent_from(Char(CharPlus))
    /\ last.resolved = Some("increment")

C8_BindingsIdempotent ==
    [][~Bindings_is_empty(table) => table'.commands = table.commands]_vars

\* bindings was called on an Input's table that was populated already.
C8_Witness ==
    /\ last.op = "bindings"
    /\ last.populated
    /\ comp.type = "Input"
    /\ Len(table.commands) = 7

\* What Increment / Decrement make of a count, with saturation.
CountAfter(n, message) ==
    IF message = Increment THEN (IF n = UsizeMax THEN n ELSE n + 1)
    ELSE (IF n = 0 THEN 0 ELSE n - 1)

\* C9: the Counter update cycle: from initial_count, each Increment adds 1
\* and each Decrement subtracts 1, saturating at the maximum and at 0, and
\* update returns Yes iff the count changed; three Increments from 0 give 3
\* with Yes each time, and Decrement at 0 leaves 0 and returns No.
C9_CounterCycle ==
    comp.type = "Counter" =>
        LET n == Len(hist.steps)
            counts[i \in 0..n] ==
                IF i = 0 THEN hist.initial
                ELSE CountAfter(counts[i - 1], hist.steps[i][1])
        IN  /\ comp.count = counts[n]
            /\ comp.count \in 0..UsizeMax
            /\ \A i \in 1..n :
                  hist.steps[i][2] = IF counts[i] # counts[i - 1] THEN Yes ELSE No
            /\ (hist.initial = 0 /\ n = 3
                    /\ \A i \in 1..n : hist.steps[i][1] = Increment)
                  => (comp.count = 3 /\ \A i \in 1..n : hist.steps[i][2] = Yes)
            /\ (hist.initial = 0 /\ n = 1 /\ hist.steps[1][1] = Decrement)
                  => (comp.count = 0 /\ hist.steps[1][2] = No)

\* Three Increments were delivered to a Counter created at 0.
C9_Witness ==
    /\ comp.type = "Counter"
    /\ hist.initial = 0
    /\ hist.steps = <<(<<Increment, Yes>>), (<<Increment, Yes>>), (<<Increment, Yes>>)>>
    /\ comp.count = 3

(***************************************************************************)
(* The binding engine as a state machine: a table of exact key-sequence    *)
(* rules, built with the Bindings builder and validated, is fed key events *)
(* one at a time; its focus flag may be set and cleared in between.        *)
(***************************************************************************)
KeyA == KeyEvent_from(Char(97))
KeyB == KeyEvent_from(Char(98))
KeyC == KeyEvent_from(Char(99))

\* "save" on ['b', 'c'] and "quit" on ['c']
Table_suffix ==
    LET b0 == Bindings_set_focus(DynamicBindings_new("Counter"), TRUE)
        b1 == Bindings_add(b0, "save", KeysRule(<<KeyB, KeyC>>), ExitHandler)
    IN  Bindings_add(b1, "quit", KeysRule(<<KeyC>>), ExitHandler)

\* "chord" on ['a', 'b', 'c'] and "upper" on ['b', 'A']
Table_chords ==
    LET b0 == Bindings_set_focus(DynamicBindings_new("Counter"), TRUE)
        b1 == Bindings_add(b0, "chord", KeysRule(<<KeyA, KeyB, KeyC>>), ExitHandler)
    IN  Bindings_add(b1, "upper", KeysRule(<<KeyB, KeyEvent_from(Char(65))>>),
                     ExitHandler)

\* "one" and "two", both on ['c']: rejected by the validation
Table_duplicate ==
    LET b0 == Bindings_set_focus(DynamicBindings_new("Counter"), TRUE)
        b1 == Bindings_add(b0, "one", KeysRule(<<KeyC>>), ExitHandler)
    IN  Bindings_add(b1, "two", KeysRule(<<KeyC>>), ExitHandler)

\* The tables tried: the three above and the one Counter::bindings builds.
SampleTables ==
    {Counter_populate(DynamicBindings_new("Counter")),
     Table_suffix, Table_chords, Table_duplicate}

FeedInputs ==
    {KeyA, KeyB, KeyC, KeyEvent_new(Char(97), {CONTROL}),
     KeyEvent_new(Char(97), {SHIFT}), KeyEvent_from(Char(CharPlus)),
     KeyEvent_new(Key("Null"), {CONTROL}), KeyEvent_from(Key("Esc"))}

InitBindings ==
    /\ table \in {t \in SampleTables : Bindings_validate(t)}
    /\ pending = <<>>
    /\ last = OpNone
    /\ comp = None
    /\ hist = [initial |-> 0, steps |-> <<>>]
    /\ shadow = <<>>
    /\ KeyIdle /\ IdIdle /\ TemplateIdle /\ LinkIdle

\* The rules (command, rule) of the table that the buffer satisfies.
Fired(bindings, buffer) ==
    {cr \in UNION {{<<c, r>> : r \in 1..Len(bindings.commands[c].rules)} :
                    c \in 1..Len(bindings.commands)} :
        RuleMatches(bindings.commands[cr[1]].rules[cr[2]], buffer)}

\* One key event is resolved against the table.
Feed(event) ==
    LET r == Resolve(table, pending, event)
    IN  /\ pending' = r.buffer
        /\ last' = [op |-> "feed", event |-> event, focus |-> table.focus,
                    bufferBefore |-> pending,
                    fired |-> IF table.focus
                              THEN Fired(table, Append(pending, event)) ELSE {},
                    first |-> r.first, matching |-> r.matching,
                    resolved |-> r.resolved, keys |-> r.keys,
                    evals |-> r.evals]
        /\ UNCHANGED <<comp, table, hist, shadow, keyVars, idVars, templateVars, linkVars>>

\* bindings.set_focus(focus)
SetFocus(focus) ==
    /\ table.focus # focus
    /\ table' = Bindings_set_focus(table, focus)
    /\ last' = [op |-> "set_focus", focus |-> focus]
    /\ UNCHANGED <<comp, pending, hist, shadow, keyVars, idVars, templateVars, linkVars>>

NextBindings ==
    \/ \E event \in FeedInputs : Feed(event)
    \/ \E focus \in BOOLEAN : SetFocus(focus)

SpecBindings == InitBindings /\ [][NextBindings]_vars

\* The last Len(keys) events of the buffer are the keys, chord by chord, as
\* normalized events.
SuffixIs(buffer, keys) ==
    /\ Len(buffer) >= Len(keys)
    /\ \A i \in 1..Len(keys) :
          normalize_case(buffer[Len(buffer) - Len(keys) + i])
              = normalize_case(keys[i])

\* The buffer is shorter than the keys and is their beginning.
StrictPrefixIs(buffer, keys) ==
    /\ Len(buffer) < Len(keys)
    /\ \A i \in 1..Len(buffer) :
          normalize_case(buffer[i]) = normalize_case(keys[i])

RulesOf(bindings) ==
    UNION {{bindings.commands[c].rules[r].keys :
                r \in 1..Len(bindings.commands[c].rules)} :
           c \in 1..Len(bindings.commands)}

\* C16: an exact rule of length n fires on a key event iff the buffer with
\* the event appended holds at least n events and its last n are the
\* rule's, chord by chord under normalized equality: a buffer that is a
\* proper prefix of the rule does not fire it, and a rule [k1, k2] fires
\* exactly when k2 arrives right after a retained k1.  A command is
\* resolved only through a rule that fired on the buffer evaluated, and is
\* resolved when it is the only one with such a rule.
C16_ExactSuffixMatch ==
    (last.op = "feed" /\ last.focus) =>
        LET appended == Append(last.bufferBefore, last.event)
            rule(cr) == table.commands[cr[1]].rules[cr[2]].keys
        IN  /\ \A c \in 1..Len(table.commands) :
                  \A r \in 1..Len(table.commands[c].rules) :
                      LET keys == rule(<<c, r>>)
                      IN  /\ (<<c, r>> \in last.fired) = SuffixIs(appended, keys)
                          /\ StrictPrefixIs(appended, keys)
                                => <<c, r>> \notin last.fired
                          /\ Len(keys) = 2 =>
                                (<<c, r>> \in last.fired) =
                                    (/\ last.bufferBefore # <<>>
                                     /\ normalize_case(last.bufferBefore[
                                            Len(last.bufferBefore)])
                                            = normalize_case(keys[1])
                                     /\ normalize_case(last.event)
                                            = normalize_case(keys[2]))
            /\ last.resolved # None =>
                  \E r \in 1..Len(table.commands[last.resolved.value].rules) :
                      SuffixIs(last.keys, rule(<<last.resolved.value, r>>))
            /\ \A c \in 1..Len(table.commands) :
                  {cr[1] : cr \in last.fired} = {c} => last.resolved = Some(c)

\* 'a' with SHIFT arrived after a retained 'b' and resolved "upper", bound
\* to ['b', 'A'].
C16_Witness ==
    /\ last.op = "feed" /\ last.focus
    /\ table = Table_chords
    /\ last.bufferBefore = <<KeyB>>
    /\ last.event = KeyEvent_new(Char(97), {SHIFT})
    /\ last.resolved # None
    /\ table.commands[last.resolved.value].name = "upper"
    /\ pending = <<>>

\* C17 as stated: in a validated table at most one command has an exact
\* rule that the buffer's trailing suffix satisfies, whatever the lengths of
\* the rules, so that a key event resolves at most one command.
C17_AtMostOneMatch ==
    (last.op = "feed" /\ last.focus /\ Bindings_validate(table)) =>
        /\ Cardinality(last.first) <= 1
        /\ Cardinality(last.matching) <= 1

\* A table with exact rules only has a longest rule.
Longest(bindings) ==
    CHOOSE n \in {Len(k) : k \in RulesOf(bindings)} :
        \A k \in RulesOf(bindings) : Len(k) <= n

\* C18: the pending buffer of a table of exact rules is bounded and never
\* stuck: after a key event it is empty, a strict prefix of a registered
\* sequence, or the event alone; it is never longer than the longest
\* registered sequence; and one event is evaluated at most twice (the
\* appended buffer, then the event alone).
C18_BufferBounded ==
    /\ Len(pending) <= Longest(table)
    /\ (last.op = "feed" /\ last.focus) =>
          /\ \/ pending = <<>>
             \/ \E k \in RulesOf(table) : StrictPrefixIs(pending, k)
             \/ pending = <<last.event>>
          /\ last.evals \in {1, 2}
          /\ last.evals = 2 => last.keys = <<last.event>>
          /\ last.evals = 1 => last.keys = Append(last.bufferBefore, last.event)

\* With 'a', 'b' retained towards ['a', 'b', 'c'], Esc arrived: the buffer
\* was reset to Esc alone after a second evaluation.
C18_Witness ==
    /\ last.op = "feed" /\ last.focus
    /\ table = Table_chords
    /\ last.bufferBefore = <<KeyA, KeyB>>
    /\ last.event = KeyEvent_from(Key("Esc"))
    /\ last.evals = 2
    /\ pending = <<KeyEvent_from(Key("Esc"))>>

(***************************************************************************)
(* Message sending as a state machine: two mounted Counters, created by    *)
(* Template::create with the ids generate_id gives them, and three copies  *)
(* of their ComponentLinks held by other execution contexts.  A send       *)
(* queues the message; the runtime delivers queued messages to update, one *)
(* at a time, and produces a frame once the queue is drained.              *)
(***************************************************************************)
MaxSends == 2

Mounted == {1, 2}
MountDef == ComponentDef_new("Counter", None, [initial_count |-> 1])
\* The id component c was created with.
MountId(c) == generate_id(MountDef, c - 1)
\* The component whose link the handle is a copy of.
Owner(h) == IF h = 3 THEN 2 ELSE 1

\* link.send(message): the message, boxed, addressed to the link's component
ComponentLink_send(link, message) ==
    [component_id |-> link.component_id,
     message |-> DynamicMessage(MessageType(link.component_id.type_id), message)]

\* What the context holding a handle sends.
MessagesOf(h) ==
    IF h = 1 THEN CounterMessage ELSE IF h = 2 THEN {Decrement} ELSE {Increment}

InitLink ==
    /\ comps = [c \in Mounted |->
                   create(MountDef, MountId(c), "r0", Sender).result.value[1]]
    /\ queue = <<>>
    /\ sentLog = [h \in Handles |-> <<>>]
    /\ got = [h \in Handles |-> <<>>]
    /\ lres = OpNone
    /\ KeyIdle /\ IdIdle /\ TemplateIdle /\ RunIdle

\* Another execution context sends a message through its copy of a link.
Send(h, message) ==
    /\ Len(sentLog[h]) < MaxSends
    /\ queue' = Append(queue,
                    [handle |-> h, seq |-> Len(sentLog[h]) + 1]
                        @@ ComponentLink_send(comps[Owner(h)].link, message))
    /\ sentLog' = [sentLog EXCEPT ![h] = Append(@, message)]
    /\ lres' = [op |-> "send", handle |-> h, before |-> comps]
    /\ UNCHANGED <<comps, got, keyVars, idVars, templateVars, runVars>>

\* The runtime takes a queued message, the earliest of its handle, and gives
\* it to the update of the component it is addressed to.
Deliver(i) ==
    LET entry == queue[i]
        to == {c \in Mounted : ComponentId_eq(MountId(c), entry.component_id)}
    IN  /\ i \in 1..Len(queue)
        /\ \A j \in 1..(i - 1) : queue[j].handle # entry.handle
        /\ queue' = SubSeq(queue, 1, i - 1) \o SubSeq(queue, i + 1, Len(queue))
        /\ comps' = [c \in Mounted |->
                        IF c \in to
                        THEN Renderable_update(comps[c], entry.message).self
                        ELSE comps[c]]
        /\ got' = [got EXCEPT ![entry.handle] =
                       Append(@, [to |-> to, seq |-> entry.seq,
                                  message |-> entry.message.value])]
        /\ lres' = [op |-> "deliver", handle |-> entry.handle]
        /\ UNCHANGED <<sentLog, keyVars, idVars, templateVars, runVars>>

\* The runtime, its queue drained, takes the view of every component.
Frame ==
    /\ queue = <<>>
    /\ lres' = [op |-> "frame", view |-> [c \in Mounted |-> comps[c].count]]
    /\ UNCHANGED <<comps, queue, sentLog, got, keyVars, idVars, templateVars, runVars>>

NextLink ==
    \/ \E h \in Handles : \E message \in MessagesOf(h) : Send(h, message)
    \/ \E i \in 1..(MaxSends * Cardinality(Handles)) : Deliver(i)
    \/ Frame

SpecLink == InitLink /\ [][NextLink]_vars

\* The queued messages of a handle, in queue order.
QueuedOf(h) == SelectSeq(queue, LAMBDA e : e.handle = h)

C14_MismatchAborts ==
    /\ (last.op = "update" /\ last.message.type_id # MessageType(last.before.type))
          => /\ last.ret = Panic("Incorrect Message type when downcasting")
             /\ last.delivered = None
             /\ last.emitted = <<>>
             /\ comp = last.before
    /\ (last.op = "change"
            /\ last.properties.type_id # PropertiesType(last.before.type))
          => /\ last.ret = Panic("Incorrect Properties type when downcasting")
             /\ last.delivered = None
             /\ comp = last.before

\* An Input was given the boxed properties of a Counter: the call panicked
\* and the Input is as it was.
C14_Witness ==
    /\ last.op = "change"
    /\ last.before.type = "Input"
    /\ last.properties.type_id = PropertiesType("Counter")
    /\ IsPanic(last.ret)
    /\ comp = last.before

\* C20: the focus of an Input's table follows its properties: after
\* change(properties) and the bindings() call that follows, the table's
\* focus flag is the component's current properties.focused, also when the
\* table was populated already; a Counter's table gets its focus (true) when
\* it is first populated and at no other time.
C20_FocusFollowsProperties ==
    /\ (comp.type = "Input" /\ last.op = "change" /\ ~IsPanic(last.ret))
          => /\ comp.properties = last.properties.value
             /\ table.focus = comp.properties.focused
    /\ (comp.type = "Input" /\ ~Bindings_is_empty(table))
          => table.focus = comp.properties.focused
    /\ comp.type = "Counter" => table.focus = ~Bindings_is_empty(table)

\* An Input in focus, its table populated, was given properties without
\* focus: the table lost its focus.
C20_Witness ==
    /\ last.op = "change"
    /\ comp.type = "Input"
    /\ last.populated
    /\ last.before.properties.focused
    /\ ~comp.properties.focused
    /\ ~table.focus

\* C21: Input::update leaves the component as it is: after update with any
\* message the properties (content, cursor, style, focused) and the frame
\* are those before the call; the change is emitted through on_change, once
\* if a callback is set and not at all otherwise, with a content only for
\* the inserting and deleting messages; and update returns Yes.  The
\* properties of an Input change through change(properties) alone, which
\* stores the new properties and returns Yes iff they differ from the
\* current ones.
C21_InputUpdateReadOnly ==
    comp.type = "Input" =>
        /\ (last.op = "update" /\ ~IsPanic(last.ret)) =>
              /\ comp = last.before
              /\ last.ret = Yes
              /\ Len(last.emitted) =
                    IF last.before.properties.on_change # None THEN 1 ELSE 0
              /\ \A i \in 1..Len(last.emitted) :
                    (last.emitted[i].content # None)
                        = (last.message.value.kind
                              \in {"InsertChar", "DeleteBackward", "DeleteForward"})
        /\ last.op \in {"update", "bindings", "resize", "key", "tick"}
              => comp.properties = last.before.properties
        /\ (last.op = "change" /\ ~IsPanic(last.ret)) =>
              /\ comp.properties = last.properties.value
              /\ comp.frame = last.before.frame
              /\ last.ret = IF last.properties.value # last.before.properties
                            THEN Yes ELSE No

\* An Input with a callback and its cursor at 0 was given InsertChar: the
\* new content and the cursor 1 were emitted once, and the Input still has
\* its content and its cursor at 0.
C21_Witness ==
    /\ last.op = "update"
    /\ comp.type = "Input"
    /\ last.message.value = InsertChar(98)
    /\ last.before.properties.cursor = 0
    /\ last.emitted = <<InputChange(Some(<<98, 97>>), 1)>>
    /\ comp.properties.cursor = 0
    /\ comp.properties.content = <<97>>
    /\ last.ret = Yes

=============================================================================
